---- MODULE Spec2Model ----
(***************************************************************************)
(* Booking-Payment consistency core of ziva-oneroof.                       *)
(*                                                                         *)
(* The model follows the request handlers of paymentController.js and      *)
(* bookingController.js (src/unnamed/part_000) over the Customer, Booking  *)
(* and Business (provider) documents.  Each handler is an async function:  *)
(* it runs up to its next awaited datastore or gateway call, and other     *)
(* requests interleave at those awaits.  A handler is therefore a small    *)
(* sequence of actions, one per awaited call that changes or reads shared  *)
(* state.                                                                  *)
(*                                                                         *)
(* Datastore (MongoDB through mongoose), as the handlers use it:           *)
(*  - a session transaction reads from the snapshot taken at its first     *)
(*    read; a write to a document that was written after that snapshot,    *)
(*    or that carries another transaction's uncommitted write, throws a    *)
(*    WriteConflict; commit applies all writes at once; abort drops them;  *)
(*  - a write outside a transaction is atomic per document and waits for   *)
(*    a transaction that holds an uncommitted write on that document;      *)
(*  - document.save() sends only the modified paths ($set of the assigned  *)
(*    value, $push of the pushed element).                                 *)
(*                                                                         *)
(* Fields no modelled handler reads (names, dates, address, ...) are left  *)
(* out of the documents.                                                   *)
(***************************************************************************)
EXTENDS Integers, Sequences, FiniteSets, TLC

\* ------------------------------------------------------------------ bounds
MaxRequests == 5      \* requests served that change anything
MaxReviews == 3       \* review submissions served that change anything

\* The longest ledger a wallet starts with where the balance handler is examined.
MaxLedger == 22

\* ------------------------------------------------------------- identifiers
Customers == {"c1", "c2"}
BookingSeq == <<"b1", "b2", "b3", "b4">>
BookingIds == {BookingSeq[i] : i \in 1..Len(BookingSeq)}
OrderSeq == <<"o1">>
OrderIds == {OrderSeq[i] : i \in 1..Len(OrderSeq)}
PaymentOf == [o \in OrderIds |-> "p1"]
PaymentIds == {"p1", "p2"}
Workers == {"w1", "w2"}
NULL == "null"

VARIABLES
    customers,    \* Customer collection: wallet.balance, wallet.transactions, loyaltyPoints
    bookings,     \* Booking collection
    barber,       \* the provider document
    orders,       \* the payment gateway's orders
    workers,      \* the request handlers in flight
    resp,         \* the response sent by the last step, NoResp when it sent none
    requests      \* requests served so far that changed anything

vars == <<customers, bookings, barber, orders, workers, resp, requests>>

\* ---------------------------------------------------------------- documents
NoBooking == [status |-> "none", customerId |-> NULL, price |-> 0, homeServiceFee |-> 0,
              discountApplied |-> 0, totalAmount |-> 0, commission |-> 0,
              paymentStatus |-> "none", transactionId |-> NULL,
              isReviewed |-> FALSE, overall |-> 0]

NoOrder == [kind |-> "none", target |-> NULL, amount |-> 0, paid |-> FALSE]

ZeroEarnings == [today |-> 0, month |-> 0, total |-> 0]

NoResp == [op |-> "none", code |-> 0, err |-> "none"]

Resp(op, code, err) == [op |-> op, code |-> code, err |-> err]

Idle == [op |-> "idle", pc |-> "idle", b |-> NULL, c |-> NULL, p |-> NULL, amt |-> 0,
         rd |-> 0, re |-> ZeroEarnings, ws |-> {}, stale |-> {}, held |-> {}]

\* Mutant: the fraction is dropped instead of rounded.
RoundDiv100_Floor(x) == x \div 100

\* Math.round(x / 100) for an integer x: the nearest integer, a half rounding up
\* (towards +infinity, as Math.round does for negative values too).
RoundDiv100(x) == (x + 50) \div 100

\* Mutant: the signature covers the order id only.
ExpectedSignature_OrderOnly(orderId, paymentId) == <<orderId, PaymentOf[orderId]>>

\* crypto.createHmac('sha256', secret).update(orderId + '|' + paymentId).digest('hex'):
\* a value only the holder of the secret can produce, different for different pairs.
ExpectedSignature(orderId, paymentId) == <<orderId, paymentId>>

BadSignature == <<"bad", "bad">>

\* The signatures a client can present: those the gateway issued for paid orders,
\* and anything that is not one.
KnownSignatures ==
    {ExpectedSignature(o, PaymentOf[o]) : o \in {x \in OrderIds : orders[x].paid}}
        \cup {BadSignature}

\* A wallet transaction sub-document.
WalletTxn(type, amount, prev, new, ref) ==
    [type |-> type, amount |-> amount, previousBalance |-> prev, newBalance |-> new,
     reference |-> ref]

\* ------------------------------------------------------------ the datastore
InTxn(w) == workers[w].op \in {"processBookingPayment", "verifyWalletPayment",
                               "verifyBookingPayment"}

\* Document d carries an uncommitted write of a transaction other than w's.
LockedByOther(d, w) == \E v \in Workers \ {w} : d \in workers[v].held

Locked(d) == \E v \in Workers : d \in workers[v].held

\* Mutant: the writes are not checked against other writers (no session on the save).
WriteConflict_Never(w, d) == FALSE

\* A transactional write of d by w throws WriteConflict.
WriteConflict(w, d) == d \in workers[w].stale \/ LockedByOther(d, w)

\* The handlers' table after worker w wrote the documents ds to the store and moved to
\* record r: every other open transaction that is going to write one of ds is now
\* behind its snapshot.
AfterWrite(w, r, ds) ==
    [v \in Workers |->
        IF v = w THEN r
        ELSE [workers[v] EXCEPT !.stale = @ \cup (ds \cap workers[v].ws)]]

\* A request is taken by the first idle handler slot, while the bound allows.
CanStart(w) ==
    /\ requests < MaxRequests
    /\ workers[w].pc = "idle"
    /\ (w = "w2" => workers["w1"].pc # "idle")

\* The request counts against the bound when it changed anything.
Counted ==
    requests' = IF <<customers, bookings, barber, orders, workers>>'
                        # <<customers, bookings, barber, orders, workers>>
                THEN requests + 1 ELSE requests

NextFree(seq, used) ==
    LET free == {i \in 1..Len(seq) : seq[i] \notin used}
    IN  IF free = {} THEN NULL ELSE seq[CHOOSE i \in free : \A j \in free : i <= j]

ExistingBookings == {b \in BookingIds : bookings[b].status # "none"}

ExistingOrders == {o \in OrderIds : orders[o].kind # "none"}

\* --------------------------------------------------------------------- Init
BarberInit == [price |-> 500, homeServiceFee |-> 100, commissionRatePercent |-> 20,
               earnings |-> ZeroEarnings, totalBookings |-> 0,
               rating |-> 50, reviewCount |-> 0]

CustomerInit == [balance |-> 0, transactions |-> <<>>, loyaltyPoints |-> 0]

Init ==
    /\ customers = [c \in Customers |-> CustomerInit]
    /\ bookings = [b \in BookingIds |-> NoBooking]
    /\ barber = BarberInit
    /\ orders = [o \in OrderIds |-> NoOrder]
    /\ workers = [w \in Workers |-> Idle]
    /\ resp = NoResp
    /\ requests = 0

\* ----------------------------------------------------- bookingController.js
\* createBooking, up to and including booking.save(): the amounts are computed from the
\* provider's price list and the booking is inserted pending/unpaid.
BookingOf(provider, customerId, locType) ==
    LET price == provider.price
        homeServiceFee == IF locType = "home" THEN provider.homeServiceFee ELSE 0
        totalAmount == price + homeServiceFee
        commission == RoundDiv100(totalAmount * provider.commissionRatePercent)
    IN  [status |-> "pending", customerId |-> customerId, price |-> price,
         homeServiceFee |-> homeServiceFee, discountApplied |-> 0,
         totalAmount |-> totalAmount, commission |-> commission,
         paymentStatus |-> "unpaid", transactionId |-> NULL,
         isReviewed |-> FALSE, overall |-> 0]

NewBooking(customerId, locType) == BookingOf(barber, customerId, locType)

CreateBooking(w, customerId, locType) ==
    LET b == NextFree(BookingSeq, ExistingBookings) IN
    /\ CanStart(w)
    /\ b # NULL
    /\ bookings' = [bookings EXCEPT ![b] = NewBooking(customerId, locType)]
    /\ workers' = [workers EXCEPT ![w] =
            [Idle EXCEPT !.op = "createBooking", !.pc = "barberSave", !.b = b,
                         !.rd = barber.totalBookings]]
    /\ resp' = NoResp
    /\ UNCHANGED <<customers, barber, orders>>
    /\ Counted

\* createBooking: barber.totalBookings = (barber.totalBookings || 0) + 1; barber.save()
CreateBooking_BarberSave(w) ==
    /\ workers[w].op = "createBooking" /\ workers[w].pc = "barberSave"
    /\ barber' = [barber EXCEPT !.totalBookings = workers[w].rd + 1]
    /\ workers' = [workers EXCEPT ![w] = Idle]
    /\ resp' = Resp("createBooking", 201, "none")
    /\ UNCHANGED <<customers, bookings, orders, requests>>

\* acceptBooking: Booking.findByIdAndUpdate(bookingId, {status: 'confirmed'}).
AcceptUpdate(booking) == [booking EXCEPT !.status = "confirmed"]

AcceptBooking(w, b) ==
    /\ CanStart(w)
    /\ ~Locked(b)
    /\ IF bookings[b].status = "none"
       THEN /\ resp' = Resp("acceptBooking", 404, "Booking not found")
            /\ UNCHANGED <<bookings, workers>>
       ELSE /\ bookings' = [bookings EXCEPT ![b] = AcceptUpdate(@)]
            /\ workers' = AfterWrite(w, workers[w], {b})
            /\ resp' = Resp("acceptBooking", 200, "none")
    /\ UNCHANGED <<customers, barber, orders>>
    /\ Counted

\* completeBooking: Booking.findByIdAndUpdate(bookingId,
\*   {status: 'completed', completedAt, paymentStatus: 'paid'}).
CompleteUpdate(booking) == [booking EXCEPT !.status = "completed", !.paymentStatus = "paid"]

CompleteBooking(w, b) ==
    /\ CanStart(w)
    /\ ~Locked(b)
    /\ IF bookings[b].status = "none"
       THEN /\ resp' = Resp("completeBooking", 404, "Booking not found")
            /\ UNCHANGED <<bookings, workers>>
       ELSE /\ bookings' = [bookings EXCEPT ![b] = CompleteUpdate(@)]
            /\ workers' = AfterWrite(w,
                   [Idle EXCEPT !.op = "completeBooking", !.pc = "readBarber", !.b = b,
                                !.c = bookings[b].customerId], {b})
            /\ resp' = NoResp
    /\ UNCHANGED <<customers, barber, orders>>
    /\ Counted

\* completeBooking: barber = await Barber.findById(booking.barberId)
CompleteBooking_ReadBarber(w) ==
    /\ workers[w].op = "completeBooking" /\ workers[w].pc = "readBarber"
    /\ workers' = [workers EXCEPT ![w].pc = "saveBarber", ![w].re = barber.earnings]
    /\ resp' = NoResp
    /\ UNCHANGED <<customers, bookings, barber, orders, requests>>

\* Mutant: the provider's share is not clamped at zero.
BarberEarning_Unclamped(booking) == booking.totalAmount - booking.commission

\* Math.max(0, (booking.totalAmount || 0) - (booking.commission || 0))
BarberEarning(booking) ==
    IF booking.totalAmount - booking.commission > 0
    THEN booking.totalAmount - booking.commission ELSE 0

\* completeBooking: the three earnings fields are set from the values read; barber.save()
CompleteBooking_SaveBarber(w) ==
    LET e == workers[w].re
        x == BarberEarning(bookings[workers[w].b])
    IN
    /\ workers[w].op = "completeBooking" /\ workers[w].pc = "saveBarber"
    /\ barber' = [barber EXCEPT !.earnings =
            [today |-> e.today + x, month |-> e.month + x, total |-> e.total + x]]
    /\ workers' = [workers EXCEPT ![w].pc = "readCustomer"]
    /\ resp' = NoResp
    /\ UNCHANGED <<customers, bookings, orders, requests>>

\* completeBooking: customer = await Customer.findById(booking.customerId)
CompleteBooking_ReadCustomer(w) ==
    /\ workers[w].op = "completeBooking" /\ workers[w].pc = "readCustomer"
    /\ workers' = [workers EXCEPT ![w].pc = "saveCustomer",
                                  ![w].rd = customers[workers[w].c].loyaltyPoints]
    /\ resp' = NoResp
    /\ UNCHANGED <<customers, bookings, barber, orders, requests>>

\* Math.round((booking.totalAmount || 0) * 10)
LoyaltyPointsFor(booking) == booking.totalAmount * 10

\* completeBooking: customer.loyaltyPoints = (read value) + points; customer.save()
CompleteBooking_SaveCustomer(w) ==
    LET c == workers[w].c IN
    /\ workers[w].op = "completeBooking" /\ workers[w].pc = "saveCustomer"
    /\ ~Locked(c)
    /\ customers' = [customers EXCEPT ![c].loyaltyPoints =
            workers[w].rd + LoyaltyPointsFor(bookings[workers[w].b])]
    /\ workers' = AfterWrite(w, Idle, {c})
    /\ resp' = Resp("completeBooking", 200, "none")
    /\ UNCHANGED <<bookings, barber, orders, requests>>

\* submitReview: Booking.findByIdAndUpdate(bookingId, {isReviewed: true, rating:
\* {overall: Number(overall || 0), ...}}); update validators are off, so any score is
\* stored.  A missing score arrives as 0.
ReviewUpdate(booking, overall) == [booking EXCEPT !.isReviewed = TRUE, !.overall = overall]

SubmitReview(w, b, overall) ==
    /\ CanStart(w)
    /\ requests < MaxReviews
    /\ ~Locked(b)
    /\ IF bookings[b].status = "none"
       THEN /\ resp' = Resp("submitReview", 404, "Booking not found")
            /\ UNCHANGED <<bookings, workers>>
       ELSE /\ bookings' = [bookings EXCEPT ![b] = ReviewUpdate(@, overall)]
            /\ workers' = AfterWrite(w,
                   [Idle EXCEPT !.op = "submitReview", !.pc = "findReviewed", !.b = b], {b})
            /\ resp' = NoResp
    /\ UNCHANGED <<customers, barber, orders>>
    /\ Counted

\* Booking.find({barberId, isReviewed: true, 'rating.overall': {$exists: true}})
ReviewedBookings == {b \in BookingIds : bookings[b].status # "none" /\ bookings[b].isReviewed}

\* reviewedBookings.reduce((sum, b) => sum + (b.rating?.overall || 0), 0), over the
\* reviewed bookings among the first n of BookingSeq.
RECURSIVE SumOverall(_)
SumOverall(n) ==
    IF n = 0 THEN 0
    ELSE SumOverall(n - 1)
           + (IF BookingSeq[n] \in ReviewedBookings THEN bookings[BookingSeq[n]].overall
              ELSE 0)

\* submitReview: the reviewed bookings are read: their sum and their number.
SubmitReview_FindReviewed(w) ==
    /\ workers[w].op = "submitReview" /\ workers[w].pc = "findReviewed"
    /\ IF ReviewedBookings = {}
       THEN /\ workers' = [workers EXCEPT ![w] = Idle]
            /\ resp' = Resp("submitReview", 200, "none")
       ELSE /\ workers' = [workers EXCEPT ![w].pc = "saveBarber",
                                          ![w].amt = SumOverall(Len(BookingSeq)),
                                          ![w].rd = Cardinality(ReviewedBookings)]
            /\ resp' = NoResp
    /\ UNCHANGED <<customers, bookings, barber, orders, requests>>

\* Mutant: the tenths are cut off instead of rounded.
RoundTenths_Floor(sum, n) == (10 * sum) \div n

\* Math.round((sum / n) * 10), the rating in tenths: the nearest tenth, a half rounding up.
RoundTenths(sum, n) == (20 * sum + n) \div (2 * n)

\* submitReview: Barber.findById, then barber.rating = Math.round(avg * 10) / 10 and
\* barber.reviewCount = reviewedBookings.length, barber.save().  The save validates the
\* modified rating against the schema (min 1, max 5); a rating outside it rejects the
\* save and the catch block answers 500.  barber.rating is kept in tenths.
SubmitReview_SaveBarber(w) ==
    LET rating == RoundTenths(workers[w].amt, workers[w].rd) IN
    /\ workers[w].op = "submitReview" /\ workers[w].pc = "saveBarber"
    /\ IF rating < 10 \/ rating > 50
       THEN /\ resp' = Resp("submitReview", 500, "ValidationError")
            /\ UNCHANGED barber
       ELSE /\ barber' = [barber EXCEPT !.rating = rating, !.reviewCount = workers[w].rd]
            /\ resp' = Resp("submitReview", 200, "none")
    /\ workers' = [workers EXCEPT ![w] = Idle]
    /\ UNCHANGED <<customers, bookings, orders, requests>>

\* ----------------------------------------------------- paymentController.js
\* The payment gateway (Razorpay): orders.create returns a fresh order.
GatewayCreate(kind, target, amount) ==
    LET o == NextFree(OrderSeq, ExistingOrders) IN
    /\ o # NULL
    /\ orders' = [orders EXCEPT ![o] =
            [kind |-> kind, target |-> target, amount |-> amount, paid |-> FALSE]]

\* The customer pays an order at the gateway's checkout; the gateway signs
\* orderId|paymentId and hands the signature to the client.
GatewayPay(o) ==
    /\ orders[o].kind # "none"
    /\ ~orders[o].paid
    /\ orders' = [orders EXCEPT ![o].paid = TRUE]
    /\ resp' = NoResp
    /\ UNCHANGED <<customers, bookings, barber, workers, requests>>

\* MIN_TOPUP = Number(process.env.MIN_TOPUP) || 100
MIN_TOPUP == 100

\* addMoneyToWallet: validates the amount and creates a gateway order; no local write.
AddMoneyToWallet(w, customerId, amount) ==
    /\ CanStart(w)
    /\ IF amount <= 0
       THEN /\ resp' = Resp("addMoneyToWallet", 400, "Invalid amount")
            /\ UNCHANGED orders
       ELSE IF amount < MIN_TOPUP
       THEN /\ resp' = Resp("addMoneyToWallet", 400, "Minimum amount")
            /\ UNCHANGED orders
       ELSE /\ GatewayCreate("wallet", customerId, amount)
            /\ resp' = Resp("addMoneyToWallet", 200, "none")
    /\ UNCHANGED <<customers, bookings, barber, workers>>
    /\ Counted

\* A transactional document.save({session}) by w on document d, then on to pc next:
\* WriteConflict is caught (abortTransaction, 500), otherwise the write is pending.
TxnSave(w, d, next) ==
    IF WriteConflict(w, d)
    THEN /\ workers' = [workers EXCEPT ![w] = Idle]
         /\ resp' = Resp(workers[w].op, 500, "WriteConflict")
    ELSE /\ workers' = [workers EXCEPT ![w].held = @ \cup {d}, ![w].pc = next]
         /\ resp' = NoResp

\* verifyWalletPayment, up to Customer.findById: parameters, signature, the read.
VerifyWalletPayment(w, orderId, paymentId, signature, customerId, amount) ==
    /\ CanStart(w)
    /\ IF amount = 0
       THEN /\ resp' = Resp("verifyWalletPayment", 400, "Missing parameters")
            /\ UNCHANGED workers
       ELSE IF ExpectedSignature(orderId, paymentId) # signature
       THEN /\ resp' = Resp("verifyWalletPayment", 400, "Invalid payment signature")
            /\ UNCHANGED workers
       ELSE /\ workers' = [workers EXCEPT ![w] =
                    [Idle EXCEPT !.op = "verifyWalletPayment", !.pc = "saveCustomer",
                                 !.c = customerId, !.p = paymentId, !.amt = amount,
                                 !.rd = customers[customerId].balance,
                                 !.ws = {customerId}]]
            /\ resp' = NoResp
    /\ UNCHANGED <<customers, bookings, barber, orders>>
    /\ Counted

\* verifyWalletPayment: await customer.save({ session })
VerifyWalletPayment_Save(w) ==
    /\ workers[w].op = "verifyWalletPayment" /\ workers[w].pc = "saveCustomer"
    /\ TxnSave(w, workers[w].c, "commit")
    /\ UNCHANGED <<customers, bookings, barber, orders, requests>>

\* verifyWalletPayment: the customer as saved: balance = prev + creditAmount and the
\* add_money transaction pushed.
CreditedCustomer(customer, prev, creditAmount, paymentId) ==
    [customer EXCEPT
        !.balance = prev + creditAmount,
        !.transactions = Append(@, WalletTxn("add_money", creditAmount, prev,
                                             prev + creditAmount, paymentId))]

\* Mutant: the committed update is not keyed by the customer: every wallet is credited.
VerifyWalletPayment_Commit_EveryCustomer(w) ==
    /\ workers[w].op = "verifyWalletPayment" /\ workers[w].pc = "commit"
    /\ customers' = [d \in Customers |->
            CreditedCustomer(customers[d], customers[d].balance, workers[w].amt,
                             workers[w].p)]
    /\ workers' = AfterWrite(w, Idle, Customers)
    /\ resp' = Resp("verifyWalletPayment", 200, "none")
    /\ UNCHANGED <<bookings, barber, orders, requests>>

\* verifyWalletPayment: await session.commitTransaction(); the response.
VerifyWalletPayment_Commit(w) ==
    LET c == workers[w].c IN
    /\ workers[w].op = "verifyWalletPayment" /\ workers[w].pc = "commit"
    /\ customers' = [customers EXCEPT ![c] =
            CreditedCustomer(@, workers[w].rd, workers[w].amt, workers[w].p)]
    /\ workers' = AfterWrite(w, Idle, {c})
    /\ resp' = Resp("verifyWalletPayment", 200, "none")
    /\ UNCHANGED <<bookings, barber, orders, requests>>

\* Mutant: the comparison also rejects a debit of the whole balance.
InsufficientBalance_OrEqual(customer, amount) == customer.balance <= amount

\* processBookingPayment: customer.wallet.balance < amount
InsufficientBalance(customer, amount) == customer.balance < amount

\* processBookingPayment, up to the branch on paymentMethod: the reads and the checks.
ProcessBookingPayment(w, bookingId, customerId, paymentMethod) ==
    LET booking == bookings[bookingId]
        customer == customers[customerId]
        amount == booking.totalAmount
        R(code, err) == Resp("processBookingPayment", code, err)
    IN
    /\ CanStart(w)
    /\ IF booking.status = "none"
       THEN resp' = R(404, "Booking not found") /\ UNCHANGED workers
       ELSE IF booking.paymentStatus = "paid"
       THEN resp' = R(400, "Booking already paid") /\ UNCHANGED workers
       ELSE IF amount <= 0
       THEN resp' = R(400, "Invalid booking amount") /\ UNCHANGED workers
       ELSE IF paymentMethod = "wallet"
       THEN IF InsufficientBalance(customer, amount)
            THEN resp' = R(400, "Insufficient wallet balance") /\ UNCHANGED workers
            ELSE /\ workers' = [workers EXCEPT ![w] =
                        [Idle EXCEPT !.op = "processBookingPayment", !.pc = "saveCustomer",
                                     !.b = bookingId, !.c = customerId, !.amt = amount,
                                     !.rd = customer.balance,
                                     !.ws = {customerId, bookingId}]]
                 /\ resp' = NoResp
       ELSE /\ workers' = [workers EXCEPT ![w] =
                    [Idle EXCEPT !.op = "processBookingPayment", !.pc = "createOrder",
                                 !.b = bookingId, !.c = customerId, !.amt = amount]]
            /\ resp' = NoResp
    /\ UNCHANGED <<customers, bookings, barber, orders>>
    /\ Counted

\* processBookingPayment: await customer.save({ session })
ProcessBookingPayment_SaveCustomer(w) ==
    /\ workers[w].op = "processBookingPayment" /\ workers[w].pc = "saveCustomer"
    /\ TxnSave(w, workers[w].c, "saveBooking")
    /\ UNCHANGED <<customers, bookings, barber, orders, requests>>

\* processBookingPayment: await booking.save({ session })
ProcessBookingPayment_SaveBooking(w) ==
    /\ workers[w].op = "processBookingPayment" /\ workers[w].pc = "saveBooking"
    /\ TxnSave(w, workers[w].b, "commit")
    /\ UNCHANGED <<customers, bookings, barber, orders, requests>>

\* Mutant: the ledger entry carries the amount without its sign.
DebitedCustomer_UnsignedEntry(customer, prevBalance, amount, bookingId) ==
    [customer EXCEPT
        !.balance = prevBalance - amount,
        !.transactions = Append(@, WalletTxn("booking_payment", amount, prevBalance,
                                             prevBalance - amount, bookingId))]

\* Mutant: the save replaces the transactions array by the new entry alone.
DebitedCustomer_LedgerReplaced(customer, prevBalance, amount, bookingId) ==
    [customer EXCEPT
        !.balance = prevBalance - amount,
        !.transactions = <<WalletTxn("booking_payment", -amount, prevBalance,
                                     prevBalance - amount, bookingId)>>]

\* processBookingPayment: the customer as saved: balance = prevBalance - amount and the
\* booking_payment transaction pushed.
DebitedCustomer(customer, prevBalance, amount, bookingId) ==
    [customer EXCEPT
        !.balance = prevBalance - amount,
        !.transactions = Append(@, WalletTxn("booking_payment", -amount, prevBalance,
                                             prevBalance - amount, bookingId))]

\* Mutant: the wallet payment also confirms the booking.
WalletPaidBooking_Confirms(booking) ==
    [booking EXCEPT !.paymentStatus = "paid", !.transactionId = "WALLET",
                    !.status = "confirmed"]

\* processBookingPayment: the booking as saved; WALLET_<Date.now()> is the one token.
WalletPaidBooking(booking) ==
    [booking EXCEPT !.paymentStatus = "paid", !.transactionId = "WALLET"]

\* Mutant: only the customer write lands (the booking is saved outside the transaction
\* and is lost).
ProcessBookingPayment_Commit_CustomerOnly(w) ==
    LET c == workers[w].c
        b == workers[w].b
    IN
    /\ workers[w].op = "processBookingPayment" /\ workers[w].pc = "commit"
    /\ customers' = [customers EXCEPT ![c] =
            DebitedCustomer(@, workers[w].rd, workers[w].amt, b)]
    /\ workers' = AfterWrite(w, Idle, {c})
    /\ resp' = Resp("processBookingPayment", 200, "none")
    /\ UNCHANGED <<bookings, barber, orders, requests>>

\* processBookingPayment, wallet: await session.commitTransaction(); the response.
ProcessBookingPayment_Commit(w) ==
    LET c == workers[w].c
        b == workers[w].b
    IN
    /\ workers[w].op = "processBookingPayment" /\ workers[w].pc = "commit"
    /\ customers' = [customers EXCEPT ![c] =
            DebitedCustomer(@, workers[w].rd, workers[w].amt, b)]
    /\ bookings' = [bookings EXCEPT ![b] = WalletPaidBooking(@)]
    /\ workers' = AfterWrite(w, Idle, {c, b})
    /\ resp' = Resp("processBookingPayment", 200, "none")
    /\ UNCHANGED <<barber, orders, requests>>

\* Mutant: the online branch marks the booking paid as soon as the order is created.
ProcessBookingPayment_CreateOrder_MarksPaid(w) ==
    /\ workers[w].op = "processBookingPayment" /\ workers[w].pc = "createOrder"
    /\ GatewayCreate("booking", workers[w].b, workers[w].amt)
    /\ bookings' = [bookings EXCEPT ![workers[w].b].paymentStatus = "paid"]
    /\ workers' = AfterWrite(w, Idle, {workers[w].b})
    /\ resp' = Resp("processBookingPayment", 200, "order")
    /\ UNCHANGED <<customers, barber, requests>>

\* processBookingPayment, online: razorpay.orders.create, the read-only commit, the response.
ProcessBookingPayment_CreateOrder(w) ==
    /\ workers[w].op = "processBookingPayment" /\ workers[w].pc = "createOrder"
    /\ GatewayCreate("booking", workers[w].b, workers[w].amt)
    /\ workers' = [workers EXCEPT ![w] = Idle]
    /\ resp' = Resp("processBookingPayment", 200, "order")
    /\ UNCHANGED <<customers, bookings, barber, requests>>

\* verifyBookingPayment, up to the reads: parameters, signature, booking and customer.
VerifyBookingPayment(w, orderId, paymentId, signature, bookingId, customerId) ==
    LET R(code, err) == Resp("verifyBookingPayment", code, err) IN
    /\ CanStart(w)
    /\ IF ExpectedSignature(orderId, paymentId) # signature
       THEN resp' = R(400, "Invalid payment signature") /\ UNCHANGED workers
       ELSE IF bookings[bookingId].status = "none"
       THEN resp' = R(404, "Booking or Customer not found") /\ UNCHANGED workers
       ELSE /\ workers' = [workers EXCEPT ![w] =
                    [Idle EXCEPT !.op = "verifyBookingPayment", !.pc = "saveBooking",
                                 !.b = bookingId, !.p = paymentId,
                                 !.ws = {bookingId}]]
            /\ resp' = NoResp
    /\ UNCHANGED <<customers, bookings, barber, orders>>
    /\ Counted

\* verifyBookingPayment: await booking.save({ session })
VerifyBookingPayment_Save(w) ==
    /\ workers[w].op = "verifyBookingPayment" /\ workers[w].pc = "saveBooking"
    /\ TxnSave(w, workers[w].b, "commit")
    /\ UNCHANGED <<customers, bookings, barber, orders, requests>>

\* verifyBookingPayment: the booking as saved.
GatewayPaidBooking(booking, paymentId) ==
    [booking EXCEPT !.paymentStatus = "paid", !.transactionId = paymentId]

\* verifyBookingPayment: await session.commitTransaction(); the response.
VerifyBookingPayment_Commit(w) ==
    LET b == workers[w].b IN
    /\ workers[w].op = "verifyBookingPayment" /\ workers[w].pc = "commit"
    /\ bookings' = [bookings EXCEPT ![b] = GatewayPaidBooking(@, workers[w].p)]
    /\ workers' = AfterWrite(w, Idle, {b})
    /\ resp' = Resp("verifyBookingPayment", 200, "none")
    /\ UNCHANGED <<customers, barber, orders, requests>>

\* The gateway refunds a payment it has captured, and rejects any other id.
GatewayRefundable(paymentId) == \E o \in OrderIds : orders[o].paid /\ PaymentOf[o] = paymentId

\* Mutant: the booking is marked refunded before the gateway is asked.
RefundPayment_MarksFirst(w, paymentId, bookingId) ==
    LET R(code, err) == Resp("refundPayment", code, err)
        known == bookingId # NULL /\ bookings[bookingId].status # "none"
    IN
    /\ CanStart(w)
    /\ ~Locked(bookingId)
    /\ bookings' = IF known THEN [bookings EXCEPT ![bookingId] =
                                      [@ EXCEPT !.paymentStatus = "refunded"]]
                   ELSE bookings
    /\ workers' = IF known THEN AfterWrite(w, workers[w], {bookingId}) ELSE workers
    /\ resp' = IF GatewayRefundable(paymentId) THEN R(200, "none")
               ELSE R(500, "Gateway error")
    /\ UNCHANGED <<customers, barber, orders>>
    /\ Counted

\* refundPayment, up to the return of razorpay.payments.refund: bookingId may be absent.
RefundPayment(w, paymentId, bookingId) ==
    LET R(code, err) == Resp("refundPayment", code, err) IN
    /\ CanStart(w)
    /\ IF ~GatewayRefundable(paymentId)
       THEN resp' = R(500, "Gateway error") /\ UNCHANGED workers
       ELSE IF bookingId = NULL
       THEN resp' = R(200, "none") /\ UNCHANGED workers
       ELSE /\ workers' = [workers EXCEPT ![w] =
                    [Idle EXCEPT !.op = "refundPayment", !.pc = "saveBooking",
                                 !.b = bookingId, !.p = paymentId]]
            /\ resp' = NoResp
    /\ UNCHANGED <<customers, bookings, barber, orders>>
    /\ Counted

\* refundPayment: the booking as saved.
RefundedBooking(booking) == [booking EXCEPT !.paymentStatus = "refunded"]

\* refundPayment: Booking.findById(bookingId), paymentStatus = 'refunded', booking.save()
RefundPayment_Save(w) ==
    LET b == workers[w].b IN
    /\ workers[w].op = "refundPayment" /\ workers[w].pc = "saveBooking"
    /\ ~Locked(b)
    /\ IF bookings[b].status = "none"
       THEN UNCHANGED bookings /\ workers' = [workers EXCEPT ![w] = Idle]
       ELSE /\ bookings' = [bookings EXCEPT ![b] = RefundedBooking(@)]
            /\ workers' = AfterWrite(w, Idle, {b})
    /\ resp' = Resp("refundPayment", 200, "none")
    /\ UNCHANGED <<customers, barber, orders, requests>>

\* getWalletBalance: slice(-20)
LATEST == 20

\* Mutant: the page is cut from the old end of the ledger.
LatestTransactions_Oldest(transactions) ==
    LET n == Len(transactions)
        k == IF n < LATEST THEN n ELSE LATEST
    IN  [i \in 1..k |-> transactions[k - i + 1]]

\* getWalletBalance: (customer.wallet.transactions || []).slice(-20).reverse()
LatestTransactions(transactions) ==
    LET n == Len(transactions)
        k == IF n < LATEST THEN n ELSE LATEST
    IN  [i \in 1..k |-> transactions[n - i + 1]]

\* getWalletBalance: one read of the customer and the response, which carries the
\* balance and the page of transactions; nothing is written.
GetWalletBalance(w, customerId) ==
    /\ CanStart(w)
    /\ resp' = IF customerId = NULL
               THEN Resp("getWalletBalance", 400, "customerId required")
               ELSE [op |-> "getWalletBalance", code |-> 200, err |-> "none",
                     balance |-> customers[customerId].balance,
                     transactions |->
                         LatestTransactions(customers[customerId].transactions)]
    /\ UNCHANGED <<customers, bookings, barber, orders, workers>>
    /\ Counted

\* The awaited call a handler is waiting on rejects (datastore or gateway failure): the
\* handler's catch block aborts the transaction when it has one, which drops its
\* pending writes, and answers 500.  Writes already made outside a transaction stay.
Fail(w) ==
    /\ workers[w].pc # "idle"
    /\ workers' = [workers EXCEPT ![w] = Idle]
    /\ resp' = Resp(workers[w].op, 500, "Server error")
    /\ UNCHANGED <<customers, bookings, barber, orders, requests>>

\* The response slot when a handler ended without sending one.
NoResponse(op) == Resp(op, 0, "no response")

\* await session.commitTransaction() rejects and, in the catch block, so does
\* await session.abortTransaction(): the driver refuses to abort a transaction whose
\* commit was already requested.  The catch block throws: endSession and handleError are
\* not reached, no response is sent, and the pending writes are not applied.  (The
\* outcome in which abortTransaction resolves is Fail.)
CommitRejected(w) ==
    /\ InTxn(w) /\ workers[w].pc = "commit"
    /\ workers' = [workers EXCEPT ![w] = Idle]
    /\ resp' = NoResponse(workers[w].op)
    /\ UNCHANGED <<customers, bookings, barber, orders, requests>>

\* --------------------------------------------------------------------- Next
LocationTypes == {"salon", "home"}
PaymentMethods == {"wallet", "upi"}
TopupAmounts == {50, 500}
VerifyAmounts == {0, 500, -500}

\* A request arrives, from the customers C, for a service at one of the locations L;
\* the bookings it creates or names are among B.
Start(C, L, B) ==
    \/ \E w \in Workers, c \in C, l \in L :
          CreateBooking(w, c, l) /\ NextFree(BookingSeq, ExistingBookings) \in B
    \/ \E w \in Workers, b \in B : AcceptBooking(w, b)
    \/ \E w \in Workers, b \in B : CompleteBooking(w, b)
    \/ \E w \in Workers, c \in C, a \in TopupAmounts : AddMoneyToWallet(w, c, a)
    \/ \E w \in Workers, o \in OrderIds, p \in PaymentIds, s \in KnownSignatures,
          c \in C, a \in VerifyAmounts : VerifyWalletPayment(w, o, p, s, c, a)
    \/ \E w \in Workers, b \in B, c \in C, m \in PaymentMethods :
          ProcessBookingPayment(w, b, c, m)
    \/ \E w \in Workers, o \in OrderIds, p \in PaymentIds, s \in KnownSignatures,
          b \in B, c \in C : VerifyBookingPayment(w, o, p, s, b, c)
    \/ \E w \in Workers, p \in PaymentIds, b \in B \cup {NULL} :
          RefundPayment(w, p, b)

\* A handler in flight takes its next step, or the gateway's checkout completes.
Continue ==
    \/ \E w \in Workers : CreateBooking_BarberSave(w)
    \/ \E w \in Workers : CompleteBooking_ReadBarber(w)
    \/ \E w \in Workers : CompleteBooking_SaveBarber(w)
    \/ \E w \in Workers : CompleteBooking_ReadCustomer(w)
    \/ \E w \in Workers : CompleteBooking_SaveCustomer(w)
    \/ \E o \in OrderIds : GatewayPay(o)
    \/ \E w \in Workers : VerifyWalletPayment_Save(w)
    \/ \E w \in Workers : VerifyWalletPayment_Commit(w)
    \/ \E w \in Workers : ProcessBookingPayment_SaveCustomer(w)
    \/ \E w \in Workers : ProcessBookingPayment_SaveBooking(w)
    \/ \E w \in Workers : ProcessBookingPayment_Commit(w)
    \/ \E w \in Workers : ProcessBookingPayment_CreateOrder(w)
    \/ \E w \in Workers : VerifyBookingPayment_Save(w)
    \/ \E w \in Workers : VerifyBookingPayment_Commit(w)
    \/ \E w \in Workers : RefundPayment_Save(w)
    \/ \E w \in Workers : Fail(w)
    \/ \E w \in Workers : CommitRejected(w)

\* One customer, two bookings at the salon, at most MaxRequests effective requests.
Next ==
    \/ Start({"c1"}, {"salon"}, {"b1", "b2"})
    \/ Continue

Spec == Init /\ [][Next]_vars

\* -------------------------------------------------------------- PaymentSpec
\* The payment requests alone, from the customers C, for the bookings B.
PaymentStart(C, B) ==
    \/ \E w \in Workers, c \in C :
          CreateBooking(w, c, "salon") /\ NextFree(BookingSeq, ExistingBookings) \in B
    \/ \E w \in Workers, c \in C, a \in TopupAmounts : AddMoneyToWallet(w, c, a)
    \/ \E w \in Workers, o \in OrderIds, p \in PaymentIds, s \in KnownSignatures,
          c \in C, a \in VerifyAmounts : VerifyWalletPayment(w, o, p, s, c, a)
    \/ \E w \in Workers, b \in B, c \in C, m \in PaymentMethods :
          ProcessBookingPayment(w, b, c, m)
    \/ \E w \in Workers, o \in OrderIds, p \in PaymentIds, s \in KnownSignatures,
          b \in B, c \in C : VerifyBookingPayment(w, o, p, s, b, c)

PaymentContinue ==
    \/ \E w \in Workers : CreateBooking_BarberSave(w)
    \/ \E o \in OrderIds : GatewayPay(o)
    \/ \E w \in Workers : VerifyWalletPayment_Save(w)
    \/ \E w \in Workers : VerifyWalletPayment_Commit(w)
    \/ \E w \in Workers : ProcessBookingPayment_SaveCustomer(w)
    \/ \E w \in Workers : ProcessBookingPayment_SaveBooking(w)
    \/ \E w \in Workers : ProcessBookingPayment_Commit(w)
    \/ \E w \in Workers : ProcessBookingPayment_CreateOrder(w)
    \/ \E w \in Workers : VerifyBookingPayment_Save(w)
    \/ \E w \in Workers : VerifyBookingPayment_Commit(w)
    \/ \E w \in Workers : Fail(w)
    \/ \E w \in Workers : CommitRejected(w)

\* Both customers, one booking, top-ups, payments and verifications.
PaymentNext ==
    \/ PaymentStart(Customers, {"b1"})
    \/ PaymentContinue

PaymentSpec == Init /\ [][PaymentNext]_vars

\* -------------------------------------------------------------- PricingSpec
\* Provider records as the schema admits them: a service price has min 0, the
\* home-service fee and the commission rate are unconstrained numbers.
ServicePrices == {0, 25, 500}
HomeServiceFees == {-100, 0, 100}
CommissionRates == {-10, 10, 20, 100, 150}

PricingInit ==
    /\ customers = [c \in Customers |-> CustomerInit]
    /\ bookings = [b \in BookingIds |-> NoBooking]
    /\ \E p \in ServicePrices, f \in HomeServiceFees, r \in CommissionRates :
          barber = [BarberInit EXCEPT !.price = p, !.homeServiceFee = f,
                                      !.commissionRatePercent = r]
    /\ orders = [o \in OrderIds |-> NoOrder]
    /\ workers = [w \in Workers |-> Idle]
    /\ resp = NoResp
    /\ requests = 0

\* One booking, at the salon or at home, created and completed by one handler at a time.
PricingNext ==
    \/ \E c \in Customers, l \in LocationTypes :
          CreateBooking("w1", c, l) /\ NextFree(BookingSeq, ExistingBookings) = "b1"
    \/ CreateBooking_BarberSave("w1")
    \/ CompleteBooking("w1", "b1")
    \/ CompleteBooking_ReadBarber("w1")
    \/ CompleteBooking_SaveBarber("w1")
    \/ CompleteBooking_ReadCustomer("w1")
    \/ CompleteBooking_SaveCustomer("w1")
    \/ Fail("w1")

PricingSpec == PricingInit /\ [][PricingNext]_vars

\* --------------------------------------------------------------- ReviewSpec
\* The overall scores a review carries: 0 stands for a missing score.
Scores == {0, 2, 5}

\* A booking of customer c1 at the salon as created, and as completed afterwards.
CreatedBooking == BookingOf(BarberInit, "c1", "salon")

CompletedBooking == CompleteUpdate(CreatedBooking)

\* The reviews of the first three bookings, submitted one after the other.
EarlierScores == [b \in {"b1", "b2", "b3"} |-> CASE b = "b1" -> 5 [] b = "b2" -> 4 [] b = "b3" -> 3]

\* The state after customer c1 created four bookings and either the first three were
\* completed and none reviewed, or all four were completed and the first three
\* reviewed, one request after the other.
ReviewInit ==
    \E reviewed \in BOOLEAN :
        LET done == IF reviewed THEN 4 ELSE 3
            paid == done * BarberEarning(CompletedBooking)
        IN
        /\ bookings = [b \in BookingIds |->
                          IF b = "b4"
                          THEN (IF done = 3 THEN CreatedBooking ELSE CompletedBooking)
                          ELSE IF reviewed
                          THEN ReviewUpdate(CompletedBooking, EarlierScores[b])
                          ELSE CompletedBooking]
        /\ barber = [BarberInit EXCEPT
                        !.totalBookings = 4,
                        !.earnings = [today |-> paid, month |-> paid, total |-> paid],
                        !.rating = IF reviewed THEN RoundTenths(5 + 4 + 3, 3) ELSE @,
                        !.reviewCount = IF reviewed THEN 3 ELSE @]
        /\ customers = [c \in Customers |->
                          IF c = "c1"
                          THEN [CustomerInit EXCEPT !.loyaltyPoints =
                                    done * LoyaltyPointsFor(CompletedBooking)]
                          ELSE CustomerInit]
        /\ orders = [o \in OrderIds |-> NoOrder]
        /\ workers = [w \in Workers |-> Idle]
        /\ resp = NoResp
        /\ requests = 0

ReviewNext ==
    \/ \E w \in Workers, b \in BookingIds, v \in Scores : SubmitReview(w, b, v)
    \/ \E w \in Workers : SubmitReview_FindReviewed(w)
    \/ \E w \in Workers : SubmitReview_SaveBarber(w)
    \/ \E w \in Workers : Fail(w)

ReviewSpec == ReviewInit /\ [][ReviewNext]_vars

\* The handlers that call the gateway, for customer c1 and booking b1: order creation
\* for a top-up and for an online payment, the verification of the latter, the refund.
GatewayNext ==
    \/ \E w \in Workers :
          CreateBooking(w, "c1", "salon") /\ NextFree(BookingSeq, ExistingBookings) = "b1"
    \/ \E w \in Workers, a \in TopupAmounts : AddMoneyToWallet(w, "c1", a)
    \/ \E w \in Workers : ProcessBookingPayment(w, "b1", "c1", "upi")
    \/ \E w \in Workers, o \in OrderIds, p \in PaymentIds, s \in KnownSignatures :
          VerifyBookingPayment(w, o, p, s, "b1", "c1")
    \/ \E w \in Workers, p \in PaymentIds, b \in {"b1", NULL} : RefundPayment(w, p, b)
    \/ \E w \in Workers : CreateBooking_BarberSave(w)
    \/ \E o \in OrderIds : GatewayPay(o)
    \/ \E w \in Workers : ProcessBookingPayment_CreateOrder(w)
    \/ \E w \in Workers : VerifyBookingPayment_Save(w)
    \/ \E w \in Workers : VerifyBookingPayment_Commit(w)
    \/ \E w \in Workers : RefundPayment_Save(w)
    \/ \E w \in Workers : Fail(w)
    \/ \E w \in Workers : CommitRejected(w)

GatewaySpec == Init /\ [][GatewayNext]_vars

\* Three bookings of c1 exist (b1 and b3 at the salon, b2 at home) and each is
\* completed at most once, by handlers that run concurrently and do not fail.
CompletionInit ==
    /\ customers = [c \in Customers |-> CustomerInit]
    /\ bookings = [b \in BookingIds |->
                      IF b = "b4" THEN NoBooking
                      ELSE IF b = "b2" THEN BookingOf(BarberInit, "c1", "home")
                      ELSE CreatedBooking]
    /\ barber = [BarberInit EXCEPT !.totalBookings = 3]
    /\ orders = [o \in OrderIds |-> NoOrder]
    /\ workers = [w \in Workers |-> Idle]
    /\ resp = NoResp
    /\ requests = 0

CompletionNext ==
    \/ \E w \in Workers, b \in ExistingBookings :
          bookings[b].status # "completed" /\ CompleteBooking(w, b)
    \/ \E w \in Workers : CompleteBooking_ReadBarber(w)
    \/ \E w \in Workers : CompleteBooking_SaveBarber(w)
    \/ \E w \in Workers : CompleteBooking_ReadCustomer(w)
    \/ \E w \in Workers : CompleteBooking_SaveCustomer(w)

CompletionSpec == CompletionInit /\ [][CompletionNext]_vars

\* One booking of c1 under any provider configuration, top-ups of c1's wallet and the
\* wallet payment of the booking, one handler at a time.
AmountNext ==
    \/ \E l \in LocationTypes :
          CreateBooking("w1", "c1", l) /\ NextFree(BookingSeq, ExistingBookings) = "b1"
    \/ CreateBooking_BarberSave("w1")
    \/ \E a \in TopupAmounts : AddMoneyToWallet("w1", "c1", a)
    \/ \E o \in OrderIds : GatewayPay(o)
    \/ \E o \in OrderIds, p \in PaymentIds, s \in KnownSignatures, a \in VerifyAmounts :
          VerifyWalletPayment("w1", o, p, s, "c1", a)
    \/ VerifyWalletPayment_Save("w1")
    \/ VerifyWalletPayment_Commit("w1")
    \/ ProcessBookingPayment("w1", "b1", "c1", "wallet")
    \/ ProcessBookingPayment_SaveCustomer("w1")
    \/ ProcessBookingPayment_SaveBooking("w1")
    \/ ProcessBookingPayment_Commit("w1")
    \/ Fail("w1")
    \/ CommitRejected("w1")

AmountSpec == PricingInit /\ [][AmountNext]_vars

\* A wallet after n verified top-ups of 500 of one captured payment.
ToppedUp(n) ==
    [CustomerInit EXCEPT
        !.balance = 500 * n,
        !.transactions = [i \in 1..n |->
            WalletTxn("add_money", 500, 500 * (i - 1), 500 * i, PaymentOf["o1"])]]

\* Wallets with ledgers of up to MaxLedger entries, and only the balance handler.
BalanceInit ==
    /\ \E n1 \in 0..MaxLedger, n2 \in 0..MaxLedger :
          /\ customers = [c \in Customers |-> IF c = "c1" THEN ToppedUp(n1)
                                               ELSE ToppedUp(n2)]
          /\ orders = [o \in OrderIds |->
                          IF n1 + n2 = 0 THEN NoOrder
                          ELSE [kind |-> "wallet", target |-> "c1", amount |-> 500,
                                paid |-> TRUE]]
    /\ bookings = [b \in BookingIds |-> NoBooking]
    /\ barber = BarberInit
    /\ workers = [w \in Workers |-> Idle]
    /\ resp = NoResp
    /\ requests = 0

BalanceNext == \E c \in Customers \cup {NULL} : GetWalletBalance("w1", c)

BalanceSpec == BalanceInit /\ [][BalanceNext]_vars

\* =================================================================== claims
Ledger(c) == customers[c].transactions

\* The wallet transactions, over all customers, of one type and one reference.
Entries(type, ref) ==
    {<<c, i>> \in Customers \X (1..(MaxRequests + 1)) :
        /\ i <= Len(Ledger(c))
        /\ Ledger(c)[i].type = type
        /\ Ledger(c)[i].reference = ref}

RECURSIVE SumAmounts(_)
SumAmounts(t) == IF t = <<>> THEN 0 ELSE t[1].amount + SumAmounts(Tail(t))

AllIdle == \A w \in Workers : workers[w].pc = "idle"

\* C1: verifying the same (orderId, paymentId) pair twice applies the wallet effects
\* once: a payment id is the reference of at most one add_money transaction.  (A
\* signature is valid for one pair only, so two credits with one payment id are two
\* verifications of the same pair.)
C1_VerifyAppliesOnce ==
    \A p \in PaymentIds : Cardinality(Entries("add_money", p)) <= 1

\* C3: every customer's wallet balance is at least 0 in every reachable state.
C3_BalanceNonNegative ==
    \A c \in Customers : customers[c].balance >= 0

\* C4: in every customer's ledger each entry has newBalance = previousBalance + amount,
\* each previousBalance is the newBalance of the entry before it (0 for the first), and
\* the stored balance is the sum of the signed amounts.
C4_LedgerConsistent ==
    \A c \in Customers :
        /\ \A i \in 1..Len(Ledger(c)) :
              /\ Ledger(c)[i].newBalance = Ledger(c)[i].previousBalance + Ledger(c)[i].amount
              /\ Ledger(c)[i].previousBalance =
                    IF i = 1 THEN 0 ELSE Ledger(c)[i - 1].newBalance
        /\ customers[c].balance = SumAmounts(Ledger(c))

\* C4 witness: a ledger that holds a top-up followed by a booking payment.
C4_Witness ==
    \E c \in Customers :
        /\ Len(Ledger(c)) >= 2
        /\ Ledger(c)[1].type = "add_money"
        /\ Ledger(c)[2].type = "booking_payment"

\* A wallet debit (processBookingPayment with paymentMethod 'wallet') past its checks.
DebitInFlight(w) ==
    /\ workers[w].op = "processBookingPayment"
    /\ workers[w].pc \in {"saveCustomer", "saveBooking", "commit"}

InsufficientResp == Resp("processBookingPayment", 400, "Insufficient wallet balance")

\* C2: of two concurrent wallet debits on one customer that read the same balance, each
\* within it and together above it, the one that does not succeed fails with
\* InsufficientBalance (a datastore or gateway failure aside).
C2_LoserGetsInsufficientBalance ==
    [][\A w \in Workers, v \in Workers :
          ( /\ w # v
            /\ DebitInFlight(w) /\ DebitInFlight(v)
            /\ workers[w].c = workers[v].c
            /\ workers[w].rd = workers[v].rd
            /\ workers[w].amt <= workers[w].rd /\ workers[v].amt <= workers[v].rd
            /\ workers[w].amt + workers[v].amt > workers[w].rd
            /\ workers[w].stale = {}
            /\ workers'[w].pc = "idle"
            /\ resp'.code # 200
            /\ resp'.err # "Server error" )
          => resp' = InsufficientResp]_vars

\* C5: a wallet debit above the balance is answered InsufficientBalance and changes no
\* customer and no booking; a debit within the balance, the whole balance included, is
\* not rejected, and its commit leaves the balance lower by exactly the amount.
C5_DebitCheckedAgainstBalance ==
    [][ /\ resp' = InsufficientResp => UNCHANGED <<customers, bookings, barber, orders>>
        /\ \A w \in Workers, b \in BookingIds, c \in Customers :
              ( /\ ProcessBookingPayment(w, b, c, "wallet")
                /\ bookings[b].status # "none"
                /\ bookings[b].paymentStatus # "paid" )
              => IF customers[c].balance < bookings[b].totalAmount
                 THEN resp' = InsufficientResp
                 ELSE resp' = NoResp /\ DebitInFlight(w)'
        /\ \A w \in Workers :
              ProcessBookingPayment_Commit(w)
              => LET c == workers[w].c
                     b == workers[w].b
                 IN  /\ customers'[c].balance = customers[c].balance - bookings[b].totalAmount
                     /\ customers'[c].balance >= 0
                     /\ Len(customers'[c].transactions) = Len(Ledger(c)) + 1 ]_vars

\* C5 witness: a wallet payment has just debited a customer's whole balance.
C5_Witness ==
    /\ resp = Resp("processBookingPayment", 200, "none")
    /\ \E c \in Customers :
          /\ customers[c].balance = 0
          /\ Len(Ledger(c)) >= 2
          /\ Ledger(c)[Len(Ledger(c))].type = "booking_payment"
          /\ Ledger(c)[Len(Ledger(c))].previousBalance > 0

\* C6: in every state, a booking_payment transaction that references a booking exists
\* only if that booking has left unpaid and carries a transaction id, and a booking
\* carries a wallet transaction id only if its booking_payment transaction exists.
C6_WalletPaymentAtomic ==
    \A b \in BookingIds :
        /\ Entries("booking_payment", b) # {}
              => /\ bookings[b].paymentStatus \in {"paid", "refunded"}
                 /\ bookings[b].transactionId # NULL
        /\ bookings[b].transactionId = "WALLET" => Entries("booking_payment", b) # {}

\* C6 witness: a wallet payment stands between its customer write and its booking write,
\* and neither shows: the booking is unpaid and no transaction references it.
C6_Witness ==
    \E w \in Workers :
        /\ workers[w].op = "processBookingPayment" /\ workers[w].pc = "saveBooking"
        /\ workers[w].c \in workers[w].held
        /\ bookings[workers[w].b].paymentStatus = "unpaid"
        /\ Entries("booking_payment", workers[w].b) = {}

\* C7: once no completeBooking is in flight, every completed booking has its provider
\* earnings and its customer's loyalty points credited.
C7_CompletionAllOrNothing ==
    AllIdle =>
        \A b \in BookingIds :
            bookings[b].status = "completed"
            => /\ barber.earnings.total >= BarberEarning(bookings[b])
               /\ customers[bookings[b].customerId].loyaltyPoints
                     >= LoyaltyPointsFor(bookings[b])

StatusEdges ==
    {<<"pending", "confirmed">>, <<"confirmed", "in-progress">>,
     <<"in-progress", "completed">>, <<"pending", "cancelled">>,
     <<"confirmed", "cancelled">>}

\* C8: a booking's status changes only along the edges of the lifecycle table.
C8_StatusFollowsEdges ==
    [][\A b \in BookingIds :
          (bookings[b].status # "none" /\ bookings'[b].status # bookings[b].status)
          => <<bookings[b].status, bookings'[b].status>> \in StatusEdges]_vars

\* C9: a booking that is completed or cancelled keeps that status.
C9_TerminalStatusStays ==
    [][\A b \in BookingIds :
          bookings[b].status \in {"completed", "cancelled"}
          => bookings'[b].status = bookings[b].status]_vars

PaymentEdges == {<<"unpaid", "paid">>, <<"paid", "refunded">>}

\* C10: a booking's paymentStatus changes only unpaid -> paid and paid -> refunded.
C10_PaymentStatusForward ==
    [][\A b \in BookingIds :
          (bookings[b].status # "none"
             /\ bookings'[b].paymentStatus # bookings[b].paymentStatus)
          => <<bookings[b].paymentStatus, bookings'[b].paymentStatus>> \in PaymentEdges]_vars

\* The credits due for the first n bookings of BookingSeq, each counted once: f is
\* "earnings" for the provider's, or a customer id for that customer's loyalty points.
RECURSIVE DueFor(_, _)
DueFor(n, f) ==
    IF n = 0 THEN 0
    ELSE LET booking == bookings[BookingSeq[n]]
         IN  DueFor(n - 1, f)
               + (IF booking.status = "none" THEN 0
                  ELSE IF f = "earnings" THEN BarberEarning(booking)
                  ELSE IF booking.customerId = f THEN LoyaltyPointsFor(booking)
                  ELSE 0)

\* C11: the provider's earnings and the customers' loyalty points never hold more than
\* one credit per booking, whatever is called and however often.
C11_CreditedOncePerBooking ==
    /\ barber.earnings.total <= DueFor(Len(BookingSeq), "earnings")
    /\ \A c \in Customers : customers[c].loyaltyPoints <= DueFor(Len(BookingSeq), c)

\* C12: a booking's paymentStatus becomes paid only in the commit of a wallet payment
\* or of a gateway verification for that booking.
C12_PaidOnlyByPayment ==
    [][\A b \in BookingIds :
          (bookings[b].paymentStatus # "paid" /\ bookings'[b].paymentStatus = "paid")
          => \E w \in Workers :
                /\ workers[w].b = b
                /\ \/ ProcessBookingPayment_Commit(w)
                   \/ VerifyBookingPayment_Commit(w)]_vars

\* The gateway orders created for target t (a booking or a customer) of the given kind
\* that were paid with payment p.
OrdersFor(kind, t, p) ==
    {o \in OrderIds : orders[o].kind = kind /\ orders[o].target = t
                        /\ orders[o].paid /\ PaymentOf[o] = p}

\* C14: a booking carries a gateway payment id only if an order created for that booking
\* was paid with it, and every add_money transaction in a customer's ledger has the
\* amount of an order created for that customer's top-up and paid with its reference.
C14_VerificationHitsIntentTarget ==
    /\ \A b \in BookingIds :
          bookings[b].transactionId \in PaymentIds
          => OrdersFor("booking", b, bookings[b].transactionId) # {}
    /\ \A c \in Customers : \A i \in 1..Len(Ledger(c)) :
          Ledger(c)[i].type = "add_money"
          => \E o \in OrdersFor("wallet", c, Ledger(c)[i].reference) :
                orders[o].amount = Ledger(c)[i].amount

\* C18: every add_money transaction in a ledger has an amount above 0.
C18_CreditAmountPositive ==
    \A c \in Customers : \A i \in 1..Len(Ledger(c)) :
        Ledger(c)[i].type = "add_money" => Ledger(c)[i].amount > 0

\* The gateway's signature over orderId|paymentId.
GatewaySignature(orderId, paymentId) == <<orderId, paymentId>>

InvalidSignatureResp(op) == Resp(op, 400, "Invalid payment signature")

\* A verification request is taken in this step: it is answered at once or is in flight.
VerificationTaken(op) ==
    \/ resp'.op = op
    \/ \E w \in Workers : workers[w].pc = "idle" /\ workers'[w].op = op

\* The step answers 'Invalid payment signature' and changes no document and no handler.
RejectedForSignature(op) ==
    /\ resp' = InvalidSignatureResp(op)
    /\ UNCHANGED <<customers, bookings, workers>>

\* C13: a verification, with its parameters present, whose signature is not the
\* gateway's signature over orderId|paymentId is answered 'Invalid payment signature'
\* and changes no customer and no booking: a step that takes a verification and is not
\* such a rejection is not the step of a request with a mismatched signature.
C13_SignatureMismatchRejected ==
    [][ /\ (VerificationTaken("verifyWalletPayment")
              /\ ~RejectedForSignature("verifyWalletPayment"))
           => ~ \E w \in Workers, o \in OrderIds, p \in PaymentIds, s \in KnownSignatures,
                   c \in Customers, a \in VerifyAmounts \ {0} :
                   s # GatewaySignature(o, p) /\ VerifyWalletPayment(w, o, p, s, c, a)
        /\ (VerificationTaken("verifyBookingPayment")
              /\ ~RejectedForSignature("verifyBookingPayment"))
           => ~ \E w \in Workers, o \in OrderIds, p \in PaymentIds, s \in KnownSignatures,
                   b \in BookingIds, c \in Customers :
                   s # GatewaySignature(o, p) /\ VerifyBookingPayment(w, o, p, s, b, c) ]_vars

\* C13 witness: a verification was answered 'Invalid payment signature' while a paid
\* order, an unpaid booking and a signature the gateway issued exist.
C13_Witness ==
    /\ resp \in {InvalidSignatureResp("verifyWalletPayment"),
                 InvalidSignatureResp("verifyBookingPayment")}
    /\ \E o \in OrderIds : orders[o].paid
    /\ \E b \in BookingIds : bookings[b].paymentStatus = "unpaid"

\* C15: every booking has totalAmount = price + homeServiceFee - discount, and its
\* commission and the amount credited to the provider for it add up to totalAmount;
\* that amount is not negative.
C15_PricingIdentities ==
    \A b \in BookingIds :
        bookings[b].status # "none"
        => /\ bookings[b].totalAmount = bookings[b].price + bookings[b].homeServiceFee
                                           - bookings[b].discountApplied
           /\ bookings[b].commission + BarberEarning(bookings[b]) = bookings[b].totalAmount
           /\ BarberEarning(bookings[b]) >= 0

\* The pricing inputs of a booking are within the calculator's domain.
ValidPricing(booking) ==
    /\ booking.price >= 0 /\ booking.homeServiceFee >= 0
    /\ barber.commissionRatePercent \in 0..100

\* C16: for a price, a fee and a rate in range, the stored commission is
\* totalAmount x rate / 100 rounded to the nearest integer, a half rounding up; price
\* 500, fee 100 and rate 20 give totalAmount 600, commission 120 and provider amount 480.
C16_CommissionRoundsHalfUp ==
    \A b \in BookingIds :
        (bookings[b].status # "none" /\ ValidPricing(bookings[b]))
        => LET t == bookings[b].totalAmount
               k == bookings[b].commission
               r == barber.commissionRatePercent
           IN  /\ 100 * k <= t * r + 50
               /\ t * r + 50 < 100 * k + 100
               /\ (bookings[b].price = 500 /\ bookings[b].homeServiceFee = 100 /\ r = 20)
                  => (t = 600 /\ k = 120 /\ BarberEarning(bookings[b]) = 480)

\* C16 witness: the booking of the example was created, completed and credited.
C16_Witness ==
    \E b \in BookingIds :
        /\ bookings[b].status = "completed"
        /\ bookings[b].price = 500 /\ bookings[b].homeServiceFee = 100
        /\ barber.commissionRatePercent = 20
        /\ bookings[b].totalAmount = 600 /\ bookings[b].commission = 120
        /\ barber.earnings.total = 480

\* C17: no booking is stored with a negative price, fee or rate, a rate above 100 or a
\* negative totalAmount.
C17_InvalidPricingStoresNoBooking ==
    \A b \in BookingIds :
        bookings[b].status # "none"
        => ValidPricing(bookings[b]) /\ bookings[b].totalAmount >= 0

\* C19: when a review submission completes and the reviews are those it read, the
\* provider's reviewCount is the number of reviewed bookings and its rating, in tenths,
\* is ten times the mean of their overall scores rounded to the nearest integer, a half
\* rounding up; scores 5, 4, 3 give 4.0 with 3 reviews, and 2 added gives 3.5.
C19_RatingIsRoundedMean ==
    [][\A w \in Workers :
          ( /\ SubmitReview_SaveBarber(w)
            /\ resp'.code = 200
            /\ workers[w].amt = SumOverall(Len(BookingSeq))
            /\ workers[w].rd = Cardinality(ReviewedBookings) )
          => LET n == Cardinality(ReviewedBookings)
                 sum == SumOverall(Len(BookingSeq))
                 r == barber'.rating
             IN  /\ barber'.reviewCount = n
                 /\ 2 * n * r <= 20 * sum + n
                 /\ 20 * sum + n < 2 * n * r + 2 * n
                 /\ (n = 3 /\ sum = 5 + 4 + 3) => r = 40
                 /\ (n = 4 /\ sum = 5 + 4 + 3 + 2) => r = 35]_vars

\* C19 witness: with reviews 5, 4, 3 and 2 stored, a submission has just completed and
\* the provider's rating is 3.5 with 4 reviews.
C19_Witness ==
    /\ resp = Resp("submitReview", 200, "none")
    /\ ReviewedBookings = BookingIds
    /\ {bookings[b].overall : b \in BookingIds} = {5, 4, 3, 2}
    /\ barber.rating = 35 /\ barber.reviewCount = 4

\* C20: a booking's review changes only while the booking is completed and not yet
\* reviewed; on any other booking no submission is taken up, so that none reaches the
\* provider's rating and reviewCount.
C20_ReviewOnceOnCompleted ==
    [][\A b \in BookingIds :
          (bookings[b].status # "completed" \/ bookings[b].isReviewed)
          => /\ bookings'[b].isReviewed = bookings[b].isReviewed
             /\ bookings'[b].overall = bookings[b].overall
             /\ ~ \E w \in Workers : /\ workers[w].pc = "idle"
                                     /\ workers'[w].op = "submitReview"
                                     /\ workers'[w].b = b]_vars

\* C21: once no review submission is in flight and the last one was answered with
\* success, the provider's reviewCount is the number of reviewed bookings and its rating,
\* in tenths, is the rounded mean of their overall scores, whatever the interleaving of
\* the submissions was.
C21_RatingSettlesToAggregate ==
    (AllIdle /\ resp = Resp("submitReview", 200, "none"))
    => LET n == Cardinality(ReviewedBookings)
           sum == SumOverall(Len(BookingSeq))
           r == barber.rating
       IN  /\ barber.reviewCount = n
           /\ 2 * n * r <= 20 * sum + n
           /\ 20 * sum + n < 2 * n * r + 2 * n

\* C22: whenever no review submission is in flight and the last one was answered by the
\* handler itself (not cut short by a datastore failure), the provider's rating lies in
\* 1.0 .. 5.0 and its reviewCount is the number of reviewed bookings, also after a review
\* whose overall score is missing.
C22_RatingInRangeCountExact ==
    (AllIdle /\ resp.op = "submitReview" /\ resp.err # "Server error")
    => /\ barber.rating \in 10..50
       /\ barber.reviewCount = Cardinality(ReviewedBookings)

\* C23: no step lowers any of the provider's earnings accumulators today, month, total,
\* whatever the interleaving of createBooking and completeBooking calls is.
C23_EarningsNeverDecrease ==
    [][/\ barber'.earnings.today >= barber.earnings.today
       /\ barber'.earnings.month >= barber.earnings.month
       /\ barber'.earnings.total >= barber.earnings.total]_vars

\* C24: a booking's transactionId, once set, is never replaced by another value.
C24_TransactionIdSetOnce ==
    [][\A b \in BookingIds :
          bookings[b].transactionId # NULL
          => bookings'[b].transactionId = bookings[b].transactionId]_vars

\* C26: a wallet payment requested for a booking whose wallet payment already succeeded
\* is not executed again and is answered like the first call: success, with no second
\* debit, the balance and the booking unchanged, and no handler left at work.
C26_RepeatedWalletPaymentIsNoOp ==
    [][\A b \in BookingIds :
          Entries("booking_payment", b) # {}
          => \A w \in Workers, c \in Customers :
                ProcessBookingPayment(w, b, c, "wallet")
                => /\ resp' = Resp("processBookingPayment", 200, "none")
                   /\ UNCHANGED <<customers, bookings, workers>>]_vars

\* C30: a handler whose transactional write meets a write conflict is not answered with
\* a failure at that first conflict: it stays at work to retry.
C30_ConflictIsRetried ==
    [][\A w \in Workers :
          (workers[w].pc # "idle" /\ resp'.err = "WriteConflict")
          => workers'[w].pc # "idle"]_vars

\* C25: a step of order creation (addMoneyToWallet answering; processBookingPayment
\* entering its online branch, or leaving it with the order created or with the gateway
\* call failed) changes no customer's balance, ledger or loyalty points and no booking.
C25_OrderCreationWritesNothing ==
    [][( \/ resp'.op = "addMoneyToWallet"
         \/ \E w \in Workers :
               \/ workers[w].pc = "idle" /\ workers'[w].pc = "createOrder"
               \/ workers[w].pc = "createOrder" /\ workers'[w].pc = "idle" )
       => UNCHANGED <<customers, bookings>>]_vars

\* C25 witness: the online branch has answered with an order for booking b1, which is
\* still unpaid and without a transactionId.
C25_Witness ==
    /\ resp = Resp("processBookingPayment", 200, "order")
    /\ orders["o1"].kind = "booking" /\ orders["o1"].target = "b1"
    /\ bookings["b1"].paymentStatus = "unpaid"
    /\ bookings["b1"].transactionId = NULL

\* C27: the step that commits a wallet payment of booking b by customer c changes, of all
\* stored data, only c's balance and ledger and b's paymentStatus and transactionId:
\* b's status and pricing fields, the other bookings, the other customers, c's loyalty
\* points, the provider and the gateway orders stay as they were.
C27_WalletPaymentFrame ==
    [][\A w \in Workers :
          ( /\ workers[w].op = "processBookingPayment"
            /\ workers[w].pc = "commit"
            /\ resp' = Resp("processBookingPayment", 200, "none") )
          => LET c == workers[w].c
                 b == workers[w].b
             IN  /\ \A d \in Customers \ {c} : customers'[d] = customers[d]
                 /\ customers'[c].loyaltyPoints = customers[c].loyaltyPoints
                 /\ \A x \in BookingIds \ {b} : bookings'[x] = bookings[x]
                 /\ bookings'[b] =
                        [bookings[b] EXCEPT
                            !.paymentStatus = bookings'[b].paymentStatus,
                            !.transactionId = bookings'[b].transactionId]
                 /\ UNCHANGED <<barber, orders>>]_vars

\* C27 witness: a wallet payment of b1 has just been committed: b1 is paid, still
\* pending, and the ledger holds its debit.
C27_Witness ==
    /\ resp = Resp("processBookingPayment", 200, "none")
    /\ bookings["b1"].paymentStatus = "paid"
    /\ bookings["b1"].status = "pending"
    /\ Entries("booking_payment", "b1") # {}

\* C28: a booking becomes refunded only in the step that follows the successful return
\* of the gateway refund of a captured payment; a refund the gateway rejects, and an
\* order creation that fails, leave every customer and every booking unchanged.
C28_LocalWriteAfterGatewaySuccess ==
    [][/\ \A b \in BookingIds :
            (bookings'[b].paymentStatus = "refunded"
                /\ bookings[b].paymentStatus # "refunded")
            => \E w \in Workers : /\ workers[w].op = "refundPayment"
                                  /\ workers[w].pc = "saveBooking"
                                  /\ workers[w].b = b
                                  /\ GatewayRefundable(workers[w].p)
                                  /\ workers'[w].pc = "idle"
       /\ (resp' = Resp("refundPayment", 500, "Gateway error")
              \/ \E w \in Workers : /\ workers[w].pc = "createOrder"
                                    /\ resp' = Resp(workers[w].op, 500, "Server error"))
            => UNCHANGED <<customers, bookings>>]_vars

\* C28 witness: a refund of a captured payment has been answered and b1 is refunded.
C28_Witness ==
    /\ resp = Resp("refundPayment", 200, "none")
    /\ bookings["b1"].paymentStatus = "refunded"
    /\ GatewayRefundable("p1")

\* C29: in every step each customer's ledger keeps all its entries, unchanged and in
\* place; it can only grow at the end.
C29_LedgerAppendOnly ==
    [][\A c \in Customers :
          /\ Len(customers'[c].transactions) >= Len(customers[c].transactions)
          /\ SubSeq(customers'[c].transactions, 1, Len(customers[c].transactions))
                = customers[c].transactions]_vars

\* C29 witness: c1's ledger holds a top-up followed by a booking payment, and a completion has
\* since saved the customer (loyalty points credited).
C29_Witness ==
    /\ Len(Ledger("c1")) = 2
    /\ Ledger("c1")[1].type = "add_money"
    /\ Ledger("c1")[2].type = "booking_payment"
    /\ customers["c1"].loyaltyPoints > 0

\* C31: a step changes the balance, ledger or loyalty points of a customer only when it
\* is the commit of a top-up verification or of a wallet payment requested for that very
\* customer; every other customer's record is left as it was, whatever else is in flight.
C31_OtherCustomersUntouched ==
    [][\A d \in Customers :
          customers'[d] # customers[d]
          => \E w \in Workers :
                /\ workers[w].op \in {"verifyWalletPayment", "processBookingPayment"}
                /\ workers[w].pc = "commit"
                /\ workers[w].c = d
                /\ workers'[w].pc = "idle"
                /\ \A e \in Customers \ {d} : customers'[e] = customers[e]]_vars

\* C31 witness: a top-up of c1 has been committed while a handler working for c2 is at
\* its commit; c2's record is still the initial one.
C31_Witness ==
    /\ resp = Resp("verifyWalletPayment", 200, "none")
    /\ Ledger("c1") # <<>>
    /\ customers["c2"] = CustomerInit
    /\ \E w \in Workers : workers[w].c = "c2" /\ workers[w].pc = "commit"

\* C34: every booking_payment entry whose reference is booking b lies in the ledger of
\* b's own customer.
C34_DebitFromOwnCustomer ==
    \A b \in BookingIds, c \in Customers :
        (\E i \in 1..Len(Ledger(c)) :
            Ledger(c)[i].type = "booking_payment" /\ Ledger(c)[i].reference = b)
        => bookings[b].customerId = c

\* C36: a booking becomes refunded only in a refund of the payment that is the booking's
\* transactionId.
C36_RefundOfOwnPayment ==
    [][\A b \in BookingIds :
          (bookings'[b].paymentStatus = "refunded"
              /\ bookings[b].paymentStatus # "refunded")
          => \E w \in Workers : /\ workers[w].op = "refundPayment"
                                /\ workers[w].b = b
                                /\ workers[w].p = bookings[b].transactionId]_vars

\* C32: when a completion saves the provider it read, each of earnings.today, month and
\* total grows by exactly max(0, totalAmount - commission) of the booking; when it saves
\* the customer it read, loyaltyPoints grow by exactly totalAmount x 10.
C32_CompletionCreditsExactAmounts ==
    [][\A w \in Workers :
          LET booking == bookings[workers[w].b]
              net == booking.totalAmount - booking.commission
              share == IF net > 0 THEN net ELSE 0
              c == workers[w].c
          IN  /\ ( /\ workers[w].op = "completeBooking"
                   /\ workers[w].pc = "saveBarber"
                   /\ workers'[w].pc = "readCustomer"
                   /\ workers[w].re = barber.earnings )
                 => /\ barber'.earnings.today = barber.earnings.today + share
                    /\ barber'.earnings.month = barber.earnings.month + share
                    /\ barber'.earnings.total = barber.earnings.total + share
              /\ ( /\ workers[w].op = "completeBooking"
                   /\ workers[w].pc = "saveCustomer"
                   /\ resp' = Resp("completeBooking", 200, "none")
                   /\ workers[w].rd = customers[c].loyaltyPoints )
                 => customers'[c].loyaltyPoints
                        = customers[c].loyaltyPoints + 10 * booking.totalAmount]_vars

\* C32 witness: a booking whose commission exceeds its totalAmount has been completed:
\* the provider earned nothing and the customer got totalAmount x 10 points.
C32_Witness ==
    /\ resp = Resp("completeBooking", 200, "none")
    /\ bookings["b1"].status = "completed"
    /\ bookings["b1"].commission > bookings["b1"].totalAmount
    /\ bookings["b1"].totalAmount > 0
    /\ barber.earnings.total = 0
    /\ \E c \in Customers : customers[c].loyaltyPoints = 10 * bookings["b1"].totalAmount

\* What the completed bookings among the first n are due: to the provider for
\* f = "earnings", to customer f otherwise.
RECURSIVE CompletedDue(_, _)
CompletedDue(n, f) ==
    IF n = 0 THEN 0
    ELSE LET booking == bookings[BookingSeq[n]]
         IN  CompletedDue(n - 1, f)
               + (IF booking.status # "completed" THEN 0
                  ELSE IF f = "earnings" THEN BarberEarning(booking)
                  ELSE IF booking.customerId = f THEN LoyaltyPointsFor(booking)
                  ELSE 0)

\* C33: when no completion is in flight, distinct bookings having been completed once
\* each in any interleaving, earnings.total is the sum of the shares of the completed
\* bookings and each customer's loyaltyPoints the sum of their points.
C33_NoLostCompletionUpdate ==
    AllIdle
    => /\ barber.earnings.total = CompletedDue(Len(BookingSeq), "earnings")
       /\ \A c \in Customers :
             customers[c].loyaltyPoints = CompletedDue(Len(BookingSeq), c)

\* C35: the commit of a wallet payment of booking b lowers the customer's balance by
\* exactly b's totalAmount, which is positive, and appends one booking_payment entry with
\* amount = -totalAmount and reference = b; a payment requested for an unpaid booking
\* whose totalAmount is not positive is answered 400 and changes nothing.
C35_DebitIsTotalAmount ==
    [][/\ \A w \in Workers :
            ( /\ workers[w].op = "processBookingPayment"
              /\ workers[w].pc = "commit"
              /\ resp' = Resp("processBookingPayment", 200, "none") )
            => LET b == workers[w].b
                   c == workers[w].c
                   t == bookings[b].totalAmount
                   n == Len(customers[c].transactions)
                   entry == customers'[c].transactions[n + 1]
               IN  /\ t > 0
                   /\ customers'[c].balance = customers[c].balance - t
                   /\ Len(customers'[c].transactions) = n + 1
                   /\ entry.type = "booking_payment"
                   /\ entry.amount = -t
                   /\ entry.reference = b
       /\ \A b \in BookingIds :
            ( /\ bookings[b].status # "none"
              /\ bookings[b].paymentStatus # "paid"
              /\ bookings[b].totalAmount <= 0 )
            => \A w \in Workers, c \in Customers, m \in PaymentMethods :
                  ProcessBookingPayment(w, b, c, m)
                  => /\ resp' = Resp("processBookingPayment", 400,
                                     "Invalid booking amount")
                     /\ UNCHANGED <<customers, bookings, orders, workers>>]_vars

\* C35 witness: a booking of 25 has been paid from a wallet of 500: the balance is 475
\* and the last ledger entry is -25 for b1.
C35_Witness ==
    /\ resp = Resp("processBookingPayment", 200, "none")
    /\ bookings["b1"].totalAmount = 25
    /\ customers["c1"].balance = 475
    /\ Ledger("c1")[Len(Ledger("c1"))].amount = -25
    /\ Ledger("c1")[Len(Ledger("c1"))].reference = "b1"

\* C38: a getWalletBalance call changes neither a customer, a booking, the provider, an
\* order nor a handler; for an existing customer it returns the stored balance and a
\* page holding the min(20, length) last entries of the ledger, the newest first.
C38_BalanceReadsLatestTwenty ==
    [][\A c \in Customers \cup {NULL} :
          GetWalletBalance("w1", c)
          => /\ UNCHANGED <<customers, bookings, barber, orders, workers>>
             /\ c # NULL
                => LET ledger == customers[c].transactions
                       page == resp'.transactions
                   IN  /\ resp'.code = 200
                       /\ resp'.balance = customers[c].balance
                       /\ Len(page) <= 20
                       /\ Len(page) = Len(ledger) \/ Len(page) = 20
                       /\ \A i \in 1..Len(page) :
                             page[i] = ledger[Len(ledger) - i + 1]]_vars

\* C38 witness: the balance of a wallet with more than 20 entries has been returned
\* with a page of 20 that starts at the newest entry.
C38_Witness ==
    /\ resp.op = "getWalletBalance" /\ resp.code = 200
    /\ Len(Ledger("c1")) > 20
    /\ resp.balance = customers["c1"].balance
    /\ Len(resp.transactions) = 20
    /\ resp.transactions[1] = Ledger("c1")[Len(Ledger("c1"))]

\* C37: a handler of verifyWalletPayment, processBookingPayment or verifyBookingPayment
\* that ends sends one response; it sends success only from its commit (or, on the
\* online branch, after the order was created and the read-only commit), and with any
\* other response its transaction is aborted: no customer and no booking has changed.
C37_OneOutcomePerTransaction ==
    [][\A w \in Workers :
          (InTxn(w) /\ workers[w].pc # "idle" /\ workers'[w].pc = "idle")
          => /\ resp'.op = workers[w].op
             /\ resp'.code \in {200, 400, 404, 500}
             /\ resp'.code = 200 => workers[w].pc \in {"commit", "createOrder"}
             /\ resp'.code # 200 => UNCHANGED <<customers, bookings>>]_vars

====
